---- MODULE Spec2Model ----
\* A model of the npns terminal file manager: the FileSys engine
\* (src/src/fs_info/file_system_info.rs), the key-event state machine of App
\* (src/src/app.rs) and the part of the POSIX filesystem they act on.
EXTENDS Integers, Sequences, FiniteSets, TLC

\* --------------------------------------------------------------------------
\* Bounds of the model
\* --------------------------------------------------------------------------

\* How many times the history may change (a record pushed, a record popped)
\* during one behaviour of Spec, of SpecFull, of SpecApp and SpecAppNav, and of
\* SpecKeys (the keys that navigate, paste, undo or submit a name are then left out).
MaxPushes == 2
FullPushes == 1
AppPushes == 1
KeyPushes == 0

\* SpecFull starts from a history of MAX_HISTORY_SIZE - FullSlack .. MAX_HISTORY_SIZE
\* navigation records.
FullSlack == 1

\* --------------------------------------------------------------------------
\* Strings, names and paths
\* --------------------------------------------------------------------------
\* A string is the sequence of its bytes (all names here are ASCII, so bytes and
\* code points coincide). A path is the sequence of its components; an absolute
\* path starts with the root component "/", PathBuf::new() has no component.

ch_nul == 0
ch_space == 32
ch_dot == 46
ch_slash == 47
ch_backslash == 92

\* The keys of handle_normal_mode and the answers of ConfirmDelete.
key_j == 106
key_k == 107
key_h == 104
key_l == 108
key_c == 99
key_x == 120
key_v == 118
key_d == 100
key_u == 117
key_r == 114
key_n == 110
key_m == 109
key_q == 113
ch_y == 121
ch_Y == 89
ch_N == 78

name_b == <<98>>          \* "b"
name_B == <<66>>          \* "B"
name_s == <<115>>         \* "s"   (the subdirectory of the start directory)
name_a == <<97>>          \* "a"   (the start directory)
name_t == <<116>>         \* "t"
name_hidden == <<46, 104>>   \* ".h"
name_empty == <<>>        \* ""
name_slash == <<98, 47, 116>>     \* "b/t"
name_dotdot == <<46, 46>>     \* ".."
name_nul == <<116, 0>>        \* "t\0"
name_backslash == <<92>>      \* "\"

RootDir == <<ch_slash>>
RootPath == <<RootDir>>
EmptyPath == <<>>
StartDir == <<RootDir, name_a>>

None == <<>>
Some(x) == <<x>>
IsSome(o) == o # <<>>
Unwrap(o) == o[1]

Contains(str, c) == \E i \in 1..Len(str) : str[i] = c
ContainsSeq(str, pat) ==
    \E i \in 1..(Len(str) - Len(pat) + 1) : SubSeq(str, i, i + Len(pat) - 1) = pat

\* String::cmp: lexicographic on bytes.
RECURSIVE StrLess(_, _)
StrLess(a, b) ==
    IF b = <<>> THEN FALSE
    ELSE IF a = <<>> THEN TRUE
    ELSE IF a[1] # b[1] THEN a[1] < b[1]
    ELSE StrLess(Tail(a), Tail(b))

\* A parent() under which the root is its own parent.
parent_root_loops(p) == IF Len(p) <= 1 THEN Some(p) ELSE Some(SubSeq(p, 1, Len(p) - 1))

\* Path::parent
parent(p) == IF Len(p) <= 1 THEN None ELSE Some(SubSeq(p, 1, Len(p) - 1))
\* Path::file_name
file_name(p) == IF Len(p) <= 1 THEN None ELSE Some(p[Len(p)])
\* Path::join with a relative single-component name
join(p, name) == Append(p, name)

IsPrefix(p, q) == Len(p) <= Len(q) /\ SubSeq(q, 1, Len(p)) = p

\* --------------------------------------------------------------------------
\* The filesystem: a function from the existing paths to their metadata
\* --------------------------------------------------------------------------

DirLen == 4096

FsRet(d, r) == [disk |-> d, r |-> r]

fs_exists(d, p) == p \in DOMAIN d
fs_is_dir(d, p) == p \in DOMAIN d /\ d[p].is_dir
fs_is_file(d, p) == p \in DOMAIN d /\ ~d[p].is_dir
ParentIsDir(d, p) == Len(p) > 1 /\ fs_is_dir(d, SubSeq(p, 1, Len(p) - 1))
Children(d, p) == {q \in DOMAIN d : Len(q) = Len(p) + 1 /\ IsPrefix(p, q)}
Subtree(d, p) == {q \in DOMAIN d : IsPrefix(p, q)}
Without(d, ps) == [q \in (DOMAIN d) \ ps |-> d[q]]
With(d, p, meta) == [q \in (DOMAIN d) \cup {p} |-> IF q = p THEN meta ELSE d[q]]

\* A copy that creates the target and writes nothing into it.
fs_copy_empty(d, src, dst) ==
    IF ~fs_exists(d, src) THEN FsRet(d, "NotFound")
    ELSE IF fs_is_dir(d, src) THEN FsRet(d, "InvalidInput")
    ELSE IF ~ParentIsDir(d, dst) THEN FsRet(d, "NotFound")
    ELSE IF fs_is_dir(d, dst) THEN FsRet(d, "IsADirectory")
    ELSE FsRet(With(d, dst, [is_dir |-> FALSE, size |-> 0]), "Ok")

\* std::fs::copy
fs_copy(d, src, dst) ==
    IF ~fs_exists(d, src) THEN FsRet(d, "NotFound")
    ELSE IF fs_is_dir(d, src) THEN FsRet(d, "InvalidInput")
    ELSE IF ~ParentIsDir(d, dst) THEN FsRet(d, "NotFound")
    ELSE IF fs_is_dir(d, dst) THEN FsRet(d, "IsADirectory")
    ELSE FsRet(With(d, dst, [is_dir |-> FALSE, size |-> d[src].size]), "Ok")

\* std::fs::rename (rename(2))
fs_rename(d, src, dst) ==
    IF ~fs_exists(d, src) THEN FsRet(d, "NotFound")
    ELSE IF ~ParentIsDir(d, dst) THEN FsRet(d, "NotFound")
    ELSE IF src = dst THEN FsRet(d, "Ok")
    ELSE IF fs_is_dir(d, src) /\ IsPrefix(src, dst) THEN FsRet(d, "InvalidInput")
    ELSE IF fs_is_dir(d, src) /\ fs_is_file(d, dst) THEN FsRet(d, "NotADirectory")
    ELSE IF fs_is_file(d, src) /\ fs_is_dir(d, dst) THEN FsRet(d, "IsADirectory")
    ELSE IF fs_is_dir(d, dst) /\ Children(d, dst) # {} THEN FsRet(d, "DirectoryNotEmpty")
    ELSE LET moved == Subtree(d, src)
             kept  == (DOMAIN d) \ (moved \cup {dst})
             to(q) == dst \o SubSeq(q, Len(src) + 1, Len(q))
             from(q) == src \o SubSeq(q, Len(dst) + 1, Len(q))
         IN  FsRet([q \in kept \cup {to(m) : m \in moved} |->
                        IF q \in kept THEN d[q] ELSE d[from(q)]], "Ok")

\* std::fs::remove_file
fs_remove_file(d, p) ==
    IF ~fs_exists(d, p) THEN FsRet(d, "NotFound")
    ELSE IF fs_is_dir(d, p) THEN FsRet(d, "IsADirectory")
    ELSE FsRet(Without(d, {p}), "Ok")

\* std::fs::remove_dir_all
fs_remove_dir_all(d, p) ==
    IF ~fs_exists(d, p) THEN FsRet(d, "NotFound")
    ELSE IF ~fs_is_dir(d, p) THEN FsRet(d, "NotADirectory")
    ELSE FsRet(Without(d, Subtree(d, p)), "Ok")

\* std::fs::create_dir
fs_create_dir(d, p) ==
    IF fs_exists(d, p) THEN FsRet(d, "AlreadyExists")
    ELSE IF ~ParentIsDir(d, p) THEN FsRet(d, "NotFound")
    ELSE FsRet(With(d, p, [is_dir |-> TRUE, size |-> DirLen]), "Ok")

\* std::fs::File::create
fs_create_file(d, p) ==
    IF fs_is_dir(d, p) THEN FsRet(d, "IsADirectory")
    ELSE IF ~ParentIsDir(d, p) THEN FsRet(d, "NotFound")
    ELSE FsRet(With(d, p, [is_dir |-> FALSE, size |-> 0]), "Ok")

\* --------------------------------------------------------------------------
\* FileSys (src/src/fs_info/file_system_info.rs)
\* --------------------------------------------------------------------------
\* Every method is an operator from the state s before the call (the fields of
\* FileSys, the fields of App and the filesystem, s.disk) to the state after it
\* and what the call returned: "Ok", an io error kind (Err), or "Panic".

MAX_HISTORY_SIZE == 64

Ret(s, r) == [s |-> s, r |-> r]
IsErr(r) == r \notin {"Ok", "Panic"}

Status(fmt, arg) == [fmt |-> fmt, arg |-> arg, err |-> ""]
SetStatus(s, fmt, arg, flag) ==
    [s EXCEPT !.status_info = Status(fmt, arg), !.status_flag = flag]

\* A record with source and target exchanged.
OpsUnit_swapped(operation, source, target) ==
    [operation |-> operation, file_source |-> target, file_target |-> source]

OpsUnit(operation, source, target) ==
    [operation |-> operation, file_source |-> source, file_target |-> target]

\* The comparator without the reverse(): files before directories.
FileLess_unreversed(a, b) ==
    IF a.is_dir # b.is_dir THEN b.is_dir ELSE StrLess(a.name, b.name)

\* The comparator handed to sort_by in refresh.
FileLess(a, b) ==
    IF a.is_dir # b.is_dir THEN a.is_dir ELSE StrLess(a.name, b.name)

\* Vec::sort_by: the entries in the order of the comparator (the names within one
\* directory are distinct, so the order read_dir yields them in does not show).
RECURSIVE SortBy(_)
SortBy(S) ==
    IF S = {} THEN <<>>
    ELSE LET m == CHOOSE x \in S : \A y \in S \ {x} : FileLess(x, y)
         IN  <<m>> \o SortBy(S \ {m})

FileInfoOf(d, p) ==
    [name |-> p[Len(p)], path |-> p, is_dir |-> d[p].is_dir, size |-> d[p].size]

\* refresh without line 63: the selection survives the rebuild of the list.
refresh_keeps_selection(s) ==
    LET cleared == [s EXCEPT !.files = <<>>]
    IN  IF ~fs_exists(s.disk, s.current_dir) THEN Ret(cleared, "NotFound")
        ELSE IF ~fs_is_dir(s.disk, s.current_dir) THEN Ret(cleared, "NotADirectory")
        ELSE Ret([s EXCEPT
                    !.files = SortBy({FileInfoOf(s.disk, p) : p \in Children(s.disk, s.current_dir)}),
                    !.status_info = Status("Ready", <<>>),
                    !.status_flag = "Ready"], "Ok")

refresh(s) ==
    LET cleared == [s EXCEPT !.files = <<>>]
    IN  IF ~fs_exists(s.disk, s.current_dir) THEN Ret(cleared, "NotFound")
        ELSE IF ~fs_is_dir(s.disk, s.current_dir) THEN Ret(cleared, "NotADirectory")
        ELSE Ret([s EXCEPT
                    !.files = SortBy({FileInfoOf(s.disk, p) : p \in Children(s.disk, s.current_dir)}),
                    !.selected_index = None,
                    !.status_info = Status("Ready", <<>>),
                    !.status_flag = "Ready"], "Ok")

\* Vec::get(index): indices count from 0.
InRange(s, index) == index < Len(s.files)
FileAt(s, index) == s.files[index + 1]

select_current(s, current_index) ==
    LET s1 == [s EXCEPT !.selected_index = Some(current_index)]
    IN  IF InRange(s, current_index)
        THEN Ret(SetStatus(s1, "Selected: {}", FileAt(s, current_index).name, "Others"), "Ok")
        ELSE Ret(s1, "Ok")

\* copy_selected emptying the clipboard when it refuses a directory.
copy_selected_clears(s, is_copy) ==
    IF IsSome(s.selected_index)
    THEN IF ~InRange(s, Unwrap(s.selected_index)) THEN Ret(s, "Panic")
         ELSE LET file == FileAt(s, Unwrap(s.selected_index))
              IN  IF ~file.is_dir
                  THEN Ret(SetStatus([s EXCEPT !.clipboard = Some([path |-> file.path, is_copy |-> is_copy])],
                                     IF is_copy THEN "Copied: {}" ELSE "Cut: {}", file.name, "Others"), "Ok")
                  ELSE Ret(SetStatus([s EXCEPT !.clipboard = None],
                                     "Operation Not Supported", <<>>, "Error"), "Ok")
    ELSE Ret(SetStatus(s, "No File Selected", <<>>, "Error"), "Ok")

copy_selected(s, is_copy) ==
    IF IsSome(s.selected_index)
    THEN IF ~InRange(s, Unwrap(s.selected_index)) THEN Ret(s, "Panic")
         ELSE LET file == FileAt(s, Unwrap(s.selected_index))
              IN  IF ~file.is_dir
                  THEN Ret(SetStatus([s EXCEPT !.clipboard = Some([path |-> file.path, is_copy |-> is_copy])],
                                     IF is_copy THEN "Copied: {}" ELSE "Cut: {}", file.name, "Others"), "Ok")
                  ELSE Ret(SetStatus(s, "Operation Not Supported", <<>>, "Error"), "Ok")
    ELSE Ret(SetStatus(s, "No File Selected", <<>>, "Error"), "Ok")

\* push_history popping the front (the newest record) where the code pops the back.
push_history_pops_front(target, ops) ==
    <<ops>> \o (IF Len(target) = MAX_HISTORY_SIZE THEN Tail(target) ELSE target)

push_history(target, ops) ==
    <<ops>> \o (IF Len(target) = MAX_HISTORY_SIZE
                THEN SubSeq(target, 1, Len(target) - 1)
                ELSE target)

\* The directory paste pastes into (lines 122-131); Panic when the selection is
\* no position of the entry list.
PasteTargetDir(s) ==
    IF IsSome(s.selected_index)
    THEN IF FileAt(s, Unwrap(s.selected_index)).is_dir
         THEN FileAt(s, Unwrap(s.selected_index)).path
         ELSE s.current_dir
    ELSE s.current_dir

\* The same tail, emptying the clipboard as well.
PushRefresh_clears_clipboard(s, op, fmt, arg) ==
    LET s1 == [s EXCEPT !.ops_history = push_history(s.ops_history, op), !.clipboard = None]
        rf == refresh(s1)
    IN  IF rf.r # "Ok" THEN rf
        ELSE Ret(SetStatus(rf.s, fmt, arg, "Others"), "Ok")

\* The tail shared by paste and rename_selected: push the record, refresh (an Err
\* returns at once), then set the final status.
PushRefresh(s, op, fmt, arg) ==
    LET s1 == [s EXCEPT !.ops_history = push_history(s.ops_history, op)]
        rf == refresh(s1)
    IN  IF rf.r # "Ok" THEN rf
        ELSE Ret(SetStatus(rf.s, fmt, arg, "Others"), "Ok")

\* paste without the check of the target path.
PasteTargetTaken_unchecked(s, target_path) == FALSE

\* The check of lines 136-140: the target path is taken.
PasteTargetTaken(s, target_path) == fs_exists(s.disk, target_path)

paste(s) ==
    IF ~IsSome(s.clipboard) THEN Ret(SetStatus(s, "Clipboard is empty", <<>>, "Error"), "Ok")
    ELSE
    LET source == Unwrap(s.clipboard).path
        is_copy == Unwrap(s.clipboard).is_copy
    IN  IF ~fs_exists(s.disk, source)
        THEN Ret(SetStatus([s EXCEPT !.clipboard = None], "Source file does not exist", <<>>, "Error"), "Ok")
        ELSE IF IsSome(s.selected_index) /\ ~InRange(s, Unwrap(s.selected_index)) THEN Ret(s, "Panic")
        ELSE IF ~IsSome(file_name(source)) THEN Ret(s, "Invalid file name")
        ELSE
        LET target_path == join(PasteTargetDir(s), Unwrap(file_name(source)))
        IN  IF PasteTargetTaken(s, target_path)
            THEN Ret(SetStatus(s, "File already exists", <<>>, "Error"), "Ok")
            ELSE
            LET io == IF is_copy THEN fs_copy(s.disk, source, target_path)
                                 ELSE fs_rename(s.disk, source, target_path)
                op == OpsUnit(IF is_copy THEN "Copy" ELSE "Cut", source, target_path)
            IN  IF io.r # "Ok" THEN Ret(s, io.r)
                ELSE PushRefresh([s EXCEPT !.disk = io.disk], op,
                                 "Pasted: {}", Unwrap(file_name(source)))

\* delete_selected recording the removal in the history.
delete_selected_recorded(s) ==
    IF ~IsSome(s.selected_index) THEN Ret(SetStatus(s, "No Selected", <<>>, "Error"), "Ok")
    ELSE IF ~InRange(s, Unwrap(s.selected_index)) THEN Ret(s, "Panic")
    ELSE
    LET source == FileAt(s, Unwrap(s.selected_index)).path
        io == IF fs_is_dir(s.disk, source) THEN fs_remove_dir_all(s.disk, source)
                                           ELSE fs_remove_file(s.disk, source)
    IN  IF io.r # "Ok" THEN Ret(s, io.r)
        ELSE PushRefresh([s EXCEPT !.disk = io.disk], OpsUnit("New", EmptyPath, source),
                         "Deleted: {}", Unwrap(file_name(source)))

delete_selected(s) ==
    IF ~IsSome(s.selected_index) THEN Ret(SetStatus(s, "No Selected", <<>>, "Error"), "Ok")
    ELSE IF ~InRange(s, Unwrap(s.selected_index)) THEN Ret(s, "Panic")
    ELSE
    LET source == FileAt(s, Unwrap(s.selected_index)).path
        io == IF fs_is_dir(s.disk, source) THEN fs_remove_dir_all(s.disk, source)
                                           ELSE fs_remove_file(s.disk, source)
    IN  IF io.r # "Ok" THEN Ret(s, io.r)
        ELSE LET rf == refresh([s EXCEPT !.disk = io.disk])
             IN  IF rf.r # "Ok" THEN rf
                 ELSE Ret(SetStatus(rf.s, "Deleted: {}", Unwrap(file_name(source)), "Others"), "Ok")

\* The validation without the ".." test.
validate_filename_no_dotdot(name) ==
    ~(  name = <<>>
     \/ Contains(name, ch_slash)
     \/ Contains(name, ch_backslash)
     \/ Contains(name, ch_nul))

validate_filename(name) ==
    ~(  name = <<>>
     \/ Contains(name, ch_slash)
     \/ Contains(name, ch_backslash)
     \/ ContainsSeq(name, <<ch_dot, ch_dot>>)
     \/ Contains(name, ch_nul))

\* new_file resolving its target inside the current directory whatever is selected.
new_file_in_current(s, name, is_dir) ==
    IF ~validate_filename(name) THEN Ret(SetStatus(s, "Invalid Name", <<>>, "Error"), "Ok")
    ELSE IF IsSome(s.selected_index) /\ ~InRange(s, Unwrap(s.selected_index)) THEN Ret(s, "Panic")
    ELSE
    LET target_path == join(s.current_dir, name)
    IN  IF fs_exists(s.disk, target_path)
        THEN Ret(SetStatus(s, "{} Exists", name, "Error"), "Ok")
        ELSE
        LET io == IF is_dir THEN fs_create_dir(s.disk, target_path)
                            ELSE fs_create_file(s.disk, target_path)
            op == OpsUnit("New", EmptyPath, target_path)
        IN  IF io.r # "Ok" THEN Ret(s, io.r)
            ELSE
            LET s1 == [s EXCEPT !.disk = io.disk,
                                !.status_info = Status(IF is_dir THEN "Dir Created: {}"
                                                                 ELSE "File Created: {}", name),
                                !.ops_history = push_history(s.ops_history, op),
                                !.status_flag = "Others"]
            IN  refresh(s1)

new_file(s, name, is_dir) ==
    IF ~validate_filename(name) THEN Ret(SetStatus(s, "Invalid Name", <<>>, "Error"), "Ok")
    ELSE IF IsSome(s.selected_index) /\ ~InRange(s, Unwrap(s.selected_index)) THEN Ret(s, "Panic")
    ELSE
    LET target_path ==
            IF IsSome(s.selected_index) /\ FileAt(s, Unwrap(s.selected_index)).is_dir
            THEN join(FileAt(s, Unwrap(s.selected_index)).path, name)
            ELSE join(s.current_dir, name)
    IN  IF fs_exists(s.disk, target_path)
        THEN Ret(SetStatus(s, "{} Exists", name, "Error"), "Ok")
        ELSE
        LET io == IF is_dir THEN fs_create_dir(s.disk, target_path)
                            ELSE fs_create_file(s.disk, target_path)
            op == OpsUnit("New", EmptyPath, target_path)
        IN  IF io.r # "Ok" THEN Ret(s, io.r)
            ELSE
            LET s1 == [s EXCEPT !.disk = io.disk,
                                !.status_info = Status(IF is_dir THEN "Dir Created: {}"
                                                                 ELSE "File Created: {}", name),
                                !.ops_history = push_history(s.ops_history, op),
                                !.status_flag = "Others"]
            IN  refresh(s1)

rename_selected(s, new_name) ==
    IF ~validate_filename(new_name) THEN Ret(SetStatus(s, "Invalid Name", <<>>, "Error"), "Ok")
    ELSE IF ~IsSome(s.selected_index) THEN Ret(SetStatus(s, "No Selection", <<>>, "Error"), "Ok")
    ELSE IF ~InRange(s, Unwrap(s.selected_index)) THEN Ret(s, "Panic")
    ELSE
    LET source == FileAt(s, Unwrap(s.selected_index)).path
        target == join(s.current_dir, new_name)
    IN  IF fs_exists(s.disk, target)
        THEN Ret(SetStatus(s, "{} Exists", new_name, "Error"), "Ok")
        ELSE
        LET io == fs_rename(s.disk, source, target)
        IN  IF io.r # "Ok" THEN Ret(s, io.r)
            ELSE PushRefresh([s EXCEPT !.disk = io.disk], OpsUnit("Rename", source, target),
                             "Renamed to: {}", new_name)

parent_dir(s) ==
    IF IsSome(parent(s.current_dir))
    THEN LET op == OpsUnit("CD", s.current_dir, Unwrap(parent(s.current_dir)))
             rf == refresh([s EXCEPT !.ops_history = push_history(s.ops_history, op),
                                     !.current_dir = Unwrap(parent(s.current_dir))])
         IN  IF rf.r # "Ok" THEN rf
             ELSE Ret([rf.s EXCEPT !.selected_index = None], "Ok")
    ELSE Ret([SetStatus(s, "Root Dir", <<>>, "Error") EXCEPT !.selected_index = None], "Ok")

\* sub_dir entering the directory at index whichever entry is selected.
sub_dir_any_selected(s, index) ==
    IF ~IsSome(s.selected_index)
    THEN Ret(SetStatus(s, "No Selection", <<>>, "Error"), "Ok")
    ELSE IF ~InRange(s, index) THEN Ret(s, "Panic")
    ELSE
    LET file == FileAt(s, index)
    IN  IF ~file.is_dir THEN Ret(SetStatus(s, "Not Dir", <<>>, "Error"), "Ok")
        ELSE
        LET op == OpsUnit("CD", s.current_dir, file.path)
            rf == refresh([s EXCEPT !.ops_history = push_history(s.ops_history, op),
                                    !.current_dir = file.path])
        IN  IF rf.r # "Ok" THEN rf
            ELSE Ret([rf.s EXCEPT !.selected_index = None], "Ok")

sub_dir(s, index) ==
    IF ~(IsSome(s.selected_index) /\ Unwrap(s.selected_index) = index)
    THEN Ret(SetStatus(s, "No Selection", <<>>, "Error"), "Ok")
    ELSE IF ~InRange(s, index) THEN Ret(s, "Panic")
    ELSE
    LET file == FileAt(s, index)
    IN  IF ~file.is_dir THEN Ret(SetStatus(s, "Not Dir", <<>>, "Error"), "Ok")
        ELSE
        LET op == OpsUnit("CD", s.current_dir, file.path)
            rf == refresh([s EXCEPT !.ops_history = push_history(s.ops_history, op),
                                    !.current_dir = file.path])
        IN  IF rf.r # "Ok" THEN rf
            ELSE Ret([rf.s EXCEPT !.selected_index = None], "Ok")

\* The match of undo with the New arm left empty.
UndoIo_keeps_new(d, last_op) ==
    IF ~fs_exists(d, last_op.file_target) THEN FsRet(d, "Ok")
    ELSE IF last_op.operation = "Copy" THEN fs_remove_file(d, last_op.file_target)
    ELSE IF last_op.operation \in {"Cut", "Rename"}
         THEN fs_rename(d, last_op.file_target, last_op.file_source)
    ELSE FsRet(d, "Ok")

\* The match of undo with Cut handled by the Copy arm (the target removed).
UndoIo_cut_as_copy(d, last_op) ==
    IF ~fs_exists(d, last_op.file_target) THEN FsRet(d, "Ok")
    ELSE IF last_op.operation \in {"Copy", "Cut"} THEN fs_remove_file(d, last_op.file_target)
    ELSE IF last_op.operation = "Rename"
         THEN fs_rename(d, last_op.file_target, last_op.file_source)
    ELSE IF fs_is_dir(d, last_op.file_target) THEN fs_remove_dir_all(d, last_op.file_target)
    ELSE fs_remove_file(d, last_op.file_target)

\* The filesystem call of undo's match (lines 330-349) for a record that is no CD.
UndoIo(d, last_op) ==
    IF ~fs_exists(d, last_op.file_target) THEN FsRet(d, "Ok")
    ELSE IF last_op.operation = "Copy" THEN fs_remove_file(d, last_op.file_target)
    ELSE IF last_op.operation \in {"Cut", "Rename"}
         THEN fs_rename(d, last_op.file_target, last_op.file_source)
    ELSE IF fs_is_dir(d, last_op.file_target) THEN fs_remove_dir_all(d, last_op.file_target)
    ELSE fs_remove_file(d, last_op.file_target)

\* undo reading the most recent record and leaving it in the history.
undo_keeps_record(s) ==
    IF s.ops_history = <<>> THEN Ret(SetStatus(s, "Nothing to undo", <<>>, "Others"), "Ok")
    ELSE
    LET last_op == Head(s.ops_history)
        done(st) == LET rf == refresh(st)
                    IN  IF rf.r # "Ok" THEN rf
                        ELSE Ret(SetStatus(rf.s, "Undone", <<>>, "Others"), "Ok")
    IN  IF last_op.operation = "CD"
        THEN LET rf == refresh([s EXCEPT !.current_dir = last_op.file_source])
             IN  IF rf.r # "Ok" THEN rf ELSE done(rf.s)
        ELSE LET io == UndoIo(s.disk, last_op)
             IN  IF io.r # "Ok" THEN Ret(s, io.r)
                 ELSE done([s EXCEPT !.disk = io.disk])

undo(s) ==
    IF s.ops_history = <<>> THEN Ret(SetStatus(s, "Nothing to undo", <<>>, "Others"), "Ok")
    ELSE
    LET last_op == Head(s.ops_history)
        s1 == [s EXCEPT !.ops_history = Tail(s.ops_history)]
        done(st) == LET rf == refresh(st)
                    IN  IF rf.r # "Ok" THEN rf
                        ELSE Ret(SetStatus(rf.s, "Undone", <<>>, "Others"), "Ok")
    IN  IF last_op.operation = "CD"
        THEN LET rf == refresh([s1 EXCEPT !.current_dir = last_op.file_source])
             IN  IF rf.r # "Ok" THEN rf ELSE done(rf.s)
        ELSE LET io == UndoIo(s1.disk, last_op)
             IN  IF io.r # "Ok" THEN Ret(s1, io.r)
                 ELSE done([s1 EXCEPT !.disk = io.disk])

\* --------------------------------------------------------------------------
\* App (src/src/app.rs)
\* --------------------------------------------------------------------------

\* str::trim: leading and trailing white space removed.
IsWhitespace(c) == c \in {9, 10, 11, 12, 13, ch_space}
RECURSIVE TrimStart(_)
TrimStart(str) ==
    IF str # <<>> /\ IsWhitespace(Head(str)) THEN TrimStart(Tail(str)) ELSE str
RECURSIVE TrimEnd(_)
TrimEnd(str) ==
    IF str # <<>> /\ IsWhitespace(str[Len(str)])
    THEN TrimEnd(SubSeq(str, 1, Len(str) - 1)) ELSE str
trim(str) == TrimEnd(TrimStart(str))

\* str::to_lowercase on ASCII
to_lowercase(str) ==
    [i \in 1..Len(str) |-> IF str[i] >= 65 /\ str[i] <= 90 THEN str[i] + 32 ELSE str[i]]

\* filtered_files: the (original_index, file) pairs that pass the hidden-file
\* and the search filter, in the order of the entry list.
Shown(s, file) ==
    /\ s.show_hidden \/ ~(file.name # <<>> /\ file.name[1] = ch_dot)
    /\ s.search_query = <<>>
         \/ ContainsSeq(to_lowercase(file.name), to_lowercase(s.search_query))
RECURSIVE FilterFrom(_, _)
FilterFrom(s, i) ==
    IF i >= Len(s.files) THEN <<>>
    ELSE (IF Shown(s, FileAt(s, i)) THEN <<[index |-> i, file |-> FileAt(s, i)]>> ELSE <<>>)
         \o FilterFrom(s, i + 1)
filtered_files(s) == FilterFrom(s, 0)

get_cursor_file_info(s) ==
    IF IsSome(s.table_state) /\ Unwrap(s.table_state) < Len(filtered_files(s))
    THEN LET e == filtered_files(s)[Unwrap(s.table_state) + 1]
         IN  Some([index |-> e.index, is_dir |-> e.file.is_dir])
    ELSE None

exit_input_mode(s) ==
    [s EXCEPT !.input_context = "None",
              !.input_buffer = <<>>,
              !.status_info = Status("Ready", <<>>),
              !.status_flag = "Ready"]

clear_selection(s) == [s EXCEPT !.selected_index = None]

reset_cursor(s) ==
    [s EXCEPT !.table_state = IF filtered_files(s) = <<>> THEN None ELSE Some(0)]

submit_input(s) ==
    LET input == trim(s.input_buffer)
    IN  IF s.input_context = "Search"
        THEN Ret(exit_input_mode(clear_selection(reset_cursor([s EXCEPT !.search_query = input]))), "Ok")
        ELSE IF s.input_context = "ConfirmDelete"
        THEN IF input = <<ch_y>> \/ input = <<ch_Y>>
             THEN LET del == delete_selected(s)
                  IN  IF del.r # "Ok" THEN del ELSE Ret(exit_input_mode(del.s), "Ok")
             ELSE IF input = <<key_n>> \/ input = <<ch_N>>
             THEN Ret(exit_input_mode(s), "Ok")
             ELSE Ret(s, "Ok")
        ELSE IF input # <<>>
        THEN LET result == IF s.input_context = "NewFile" THEN new_file(s, input, FALSE)
                           ELSE IF s.input_context = "NewDir" THEN new_file(s, input, TRUE)
                           ELSE IF s.input_context = "Rename" THEN rename_selected(s, input)
                           ELSE Ret(s, "Ok")
             IN  IF result.r = "Panic" THEN result
                 ELSE IF result.r # "Ok"
                 THEN Ret(exit_input_mode([result.s EXCEPT
                              !.status_info = [fmt |-> "Error: {}", arg |-> <<>>, err |-> result.r],
                              !.status_flag = "Error"]), "Ok")
                 ELSE Ret(exit_input_mode(result.s), "Ok")
        ELSE Ret(exit_input_mode(s), "Ok")

\* handle_input_mode taking the key q as the quit command.
handle_input_mode_quits(s, key) ==
    IF key.code = "Char" /\ key.c = key_q THEN Ret([s EXCEPT !.should_quit = TRUE], "Ok")
    ELSE IF key.code = "Char" THEN Ret([s EXCEPT !.input_buffer = Append(s.input_buffer, key.c)], "Ok")
    ELSE IF key.code = "Backspace"
    THEN Ret([s EXCEPT !.input_buffer =
                 IF s.input_buffer = <<>> THEN <<>>
                 ELSE SubSeq(s.input_buffer, 1, Len(s.input_buffer) - 1)], "Ok")
    ELSE IF key.code = "Enter" THEN submit_input(s)
    ELSE IF key.code = "Esc" THEN Ret(exit_input_mode(s), "Ok")
    ELSE Ret(s, "Ok")

handle_input_mode(s, key) ==
    IF key.code = "Char" THEN Ret([s EXCEPT !.input_buffer = Append(s.input_buffer, key.c)], "Ok")
    ELSE IF key.code = "Backspace"
    THEN Ret([s EXCEPT !.input_buffer =
                 IF s.input_buffer = <<>> THEN <<>>
                 ELSE SubSeq(s.input_buffer, 1, Len(s.input_buffer) - 1)], "Ok")
    ELSE IF key.code = "Enter" THEN submit_input(s)
    ELSE IF key.code = "Esc" THEN Ret(exit_input_mode(s), "Ok")
    ELSE Ret(s, "Ok")

move_cursor(s, delta) ==
    LET len == Len(filtered_files(s))
    IN  IF len = 0 THEN [s EXCEPT !.table_state = None]
        ELSE [s EXCEPT !.table_state =
                 IF IsSome(s.table_state)
                 THEN LET i == Unwrap(s.table_state)
                      IN  IF delta > 0 THEN (IF i >= len - 1 THEN Some(0) ELSE Some(i + 1))
                          ELSE (IF i = 0 THEN Some(len - 1) ELSE Some(i - 1))
                 ELSE Some(0)]

go_parent_dir(s) ==
    LET res == parent_dir(s)
    IN  IF res.r # "Ok" THEN res ELSE Ret(reset_cursor(clear_selection(res.s)), "Ok")

enter_current(s) ==
    LET info == get_cursor_file_info(s)
    IN  IF IsSome(info) /\ Unwrap(info).is_dir
        THEN LET res == sub_dir(select_current(s, Unwrap(info).index).s, Unwrap(info).index)
             IN  IF res.r # "Ok" THEN res
                 ELSE Ret(reset_cursor(clear_selection([res.s EXCEPT !.search_query = <<>>])), "Ok")
        ELSE Ret(s, "Ok")

toggle_selection(s) ==
    LET info == get_cursor_file_info(s)
    IN  IF IsSome(info)
        THEN IF s.selected_index = Some(Unwrap(info).index)
             THEN [s EXCEPT !.selected_index = None]
             ELSE [s EXCEPT !.selected_index = Some(Unwrap(info).index)]
        ELSE s

start_delete_confirm(s) ==
    IF IsSome(s.selected_index) THEN [s EXCEPT !.input_context = "ConfirmDelete"]
    ELSE exit_input_mode(s)

\* start_rename opening the prompt with an empty buffer.
start_rename_clears(s) ==
    LET info == get_cursor_file_info(s)
    IN  IF IsSome(info) /\ InRange(s, Unwrap(info).index)
        THEN [s EXCEPT !.selected_index = Some(Unwrap(info).index),
                       !.input_buffer = <<>>,
                       !.input_context = "Rename"]
        ELSE s

start_rename(s) ==
    LET info == get_cursor_file_info(s)
    IN  IF IsSome(info) /\ InRange(s, Unwrap(info).index)
        THEN [s EXCEPT !.selected_index = Some(Unwrap(info).index),
                       !.input_buffer = FileAt(s, Unwrap(info).index).name,
                       !.input_context = "Rename"]
        ELSE s

start_new_file(s) == [s EXCEPT !.input_context = "NewFile", !.input_buffer = <<>>]
start_new_dir(s) == [s EXCEPT !.input_context = "NewDir", !.input_buffer = <<>>]

toggle_hidden_files(s) ==
    reset_cursor([s EXCEPT !.show_hidden = ~s.show_hidden, !.search_query = <<>>])

start_search(s) == reset_cursor([s EXCEPT !.input_context = "Search", !.input_buffer = <<>>])

clear_search(s) ==
    IF s.search_query # <<>> THEN reset_cursor([s EXCEPT !.search_query = <<>>]) ELSE s

handle_normal_mode(s, key) ==
    IF key.code = "Esc" THEN Ret(clear_search(s), "Ok")
    ELSE IF key.code # "Char" THEN Ret(s, "Ok")
    ELSE IF key.c = key_j THEN Ret(move_cursor(s, -1), "Ok")
    ELSE IF key.c = key_k THEN Ret(move_cursor(s, 1), "Ok")
    ELSE IF key.c = key_h THEN go_parent_dir(s)
    ELSE IF key.c = key_l THEN enter_current(s)
    ELSE IF key.c = ch_space THEN Ret(toggle_selection(s), "Ok")
    ELSE IF key.c = key_c THEN copy_selected(s, TRUE)
    ELSE IF key.c = key_x THEN copy_selected(s, FALSE)
    ELSE IF key.c = key_v THEN paste(s)
    ELSE IF key.c = key_d THEN Ret(start_delete_confirm(s), "Ok")
    ELSE IF key.c = key_u THEN undo(s)
    ELSE IF key.c = key_r THEN Ret(start_rename(s), "Ok")
    ELSE IF key.c = key_n THEN Ret(start_new_file(s), "Ok")
    ELSE IF key.c = key_m THEN Ret(start_new_dir(s), "Ok")
    ELSE IF key.c = ch_dot THEN Ret(toggle_hidden_files(s), "Ok")
    ELSE IF key.c = ch_slash THEN Ret(start_search(s), "Ok")
    ELSE IF key.c = key_q THEN Ret([s EXCEPT !.should_quit = TRUE], "Ok")
    ELSE Ret(s, "Ok")

\* render_status_bar: the title of the box, the fixed text before the buffer, the
\* buffer shown, the status shown (Normal only, with its two suffixes) and the colour.
render_status_bar(s) ==
    LET box(title, prompt, input, status, search, hidden, color) ==
            [title |-> title, prompt |-> prompt, input |-> input, status |-> status,
             search |-> search, hidden |-> hidden, color |-> color]
    IN  IF s.input_context = "Search"
        THEN box("Search", "", s.input_buffer, Status("", <<>>), <<>>, FALSE, "Gray")
        ELSE IF s.input_context = "ConfirmDelete"
        THEN box("Confirm", "Removed files cannot recover (y/N): ", s.input_buffer,
                 Status("", <<>>), <<>>, FALSE, "Magenta")
        ELSE IF s.input_context = "None"
        THEN box("Status", "", <<>>, s.status_info, s.search_query, s.show_hidden,
                 IF s.status_flag = "Error" THEN "Red"
                 ELSE IF s.status_flag = "Ready" THEN "Green"
                 ELSE IF s.status_flag = "Input" THEN "Yellow"
                 ELSE "White")
        ELSE box("Input", "", s.input_buffer, Status("", <<>>), <<>>, FALSE, "Yellow")

handle_key(s, key) ==
    IF s.input_context # "None" THEN handle_input_mode(s, key) ELSE handle_normal_mode(s, key)

\* --------------------------------------------------------------------------
\* The state machine
\* --------------------------------------------------------------------------

VARIABLES
    disk,            \* the filesystem
    current_dir, files, selected_index, status_info, status_flag,
    clipboard, ops_history,                      \* FileSys
    table_state, input_context, input_buffer,
    show_hidden, search_query, should_quit,      \* App
    running,         \* FALSE once the process has panicked
    budget,          \* how many times the history may still change (the model's bound)
    last             \* the last call: its name and what it returned

vars == <<disk, current_dir, files, selected_index, status_info, status_flag,
          clipboard, ops_history, table_state, input_context, input_buffer,
          show_hidden, search_query, should_quit, running, budget, last>>

\* The program's state as one record, as the operators above take it.
S == [disk |-> disk, current_dir |-> current_dir, files |-> files,
      selected_index |-> selected_index, status_info |-> status_info,
      status_flag |-> status_flag, clipboard |-> clipboard,
      ops_history |-> ops_history, table_state |-> table_state,
      input_context |-> input_context, input_buffer |-> input_buffer,
      show_hidden |-> show_hidden, search_query |-> search_query,
      should_quit |-> should_quit]

\* The names new_file and rename_selected are called with.
ValidNames == {name_B, name_b}
InvalidNames == {name_empty, name_slash, name_dotdot, name_nul, name_backslash}
InputNames == ValidNames \cup InvalidNames

\* The texts typed into the input buffer ("y", " y", "n", "/": the buffer holds a
\* prefix of one of them), and the keys pressed in Normal.
Typed == {<<ch_y>>, <<ch_space, ch_y>>, <<key_n>>, <<ch_slash>>}
TypedPrefixes == UNION {{SubSeq(w, 1, k) : k \in 0..Len(w)} : w \in Typed}
InputChars == UNION {{w[k] : k \in 1..Len(w)} : w \in Typed}
CommandChars == {key_j, key_k, key_h, key_l, ch_space, key_c, key_x, key_v, key_d,
                 key_u, key_r, key_n, key_m, ch_dot, ch_slash, key_q}

\* The filesystem the program is started in: /a holds the file b (3 bytes) and
\* the directory s; the program starts in /a.
InitDisk ==
    LET dir == [is_dir |-> TRUE, size |-> DirLen]
    IN  (RootPath :> dir) @@ (StartDir :> dir)
        @@ (join(StartDir, name_s) :> dir)
        @@ (join(StartDir, name_b) :> [is_dir |-> FALSE, size |-> 3])

\* FileSys::init and App::new
InitState ==
    refresh([disk |-> InitDisk, current_dir |-> StartDir, files |-> <<>>,
             selected_index |-> None, status_info |-> Status("Initializing", <<>>),
             status_flag |-> "Others", clipboard |-> None, ops_history |-> <<>>,
             table_state |-> None, input_context |-> "None", input_buffer |-> <<>>,
             show_hidden |-> FALSE, search_query |-> <<>>, should_quit |-> FALSE]).s

\* The state after n navigations from the start, into s (select_current, sub_dir)
\* and back (parent_dir) in turn, n <= MAX_HISTORY_SIZE: the history holds the n
\* CD records, the most recent first, and the last refresh has reset selection
\* and status.
NavRecord(k) ==
    IF k % 2 = 1 THEN OpsUnit("CD", StartDir, join(StartDir, name_s))
    ELSE OpsUnit("CD", join(StartDir, name_s), StartDir)
NavState(n) ==
    refresh([InitState EXCEPT
                !.current_dir = IF n % 2 = 1 THEN join(StartDir, name_s) ELSE StartDir,
                !.ops_history = [i \in 1..n |-> NavRecord(n + 1 - i)]]).s

Call(op, r) == [op |-> op, r |-> r]

StartIn(s, pushes) ==
    /\ disk = s.disk
    /\ current_dir = s.current_dir
    /\ files = s.files
    /\ selected_index = s.selected_index
    /\ status_info = s.status_info
    /\ status_flag = s.status_flag
    /\ clipboard = s.clipboard
    /\ ops_history = s.ops_history
    /\ table_state = s.table_state
    /\ input_context = s.input_context
    /\ input_buffer = s.input_buffer
    /\ show_hidden = s.show_hidden
    /\ search_query = s.search_query
    /\ should_quit = s.should_quit
    /\ running = TRUE
    /\ budget = pushes
    /\ last = Call("init", "Ok")

Init == StartIn(InitState, MaxPushes)

InitFull ==
    \E n \in (MAX_HISTORY_SIZE - FullSlack)..MAX_HISTORY_SIZE : StartIn(NavState(n), FullPushes)

InitApp == StartIn(InitState, AppPushes)

\* A call that returned res: the program is in res.s; a panic ends the process.
Becomes(res, op) ==
    /\ disk' = res.s.disk
    /\ current_dir' = res.s.current_dir
    /\ files' = res.s.files
    /\ selected_index' = res.s.selected_index
    /\ status_info' = res.s.status_info
    /\ status_flag' = res.s.status_flag
    /\ clipboard' = res.s.clipboard
    /\ ops_history' = res.s.ops_history
    /\ table_state' = res.s.table_state
    /\ input_context' = res.s.input_context
    /\ input_buffer' = res.s.input_buffer
    /\ show_hidden' = res.s.show_hidden
    /\ search_query' = res.s.search_query
    /\ should_quit' = res.s.should_quit
    /\ running' = (res.r # "Panic")
    /\ budget' = IF res.s.ops_history # ops_history THEN budget - 1 ELSE budget
    /\ last' = Call(op, res.r)

CanChange == budget > 0

\* ---- the calls of the FileSys API ----

SelectCurrent ==
    /\ running
    /\ \E i \in 0..Len(files) : Becomes(select_current(S, i), "select_current")

ClearSelection ==
    /\ running
    /\ Becomes(Ret(clear_selection(S), "Ok"), "clear_selection")

CopySelected ==
    /\ running
    /\ \E is_copy \in BOOLEAN : Becomes(copy_selected(S, is_copy), "copy_selected")

Paste ==
    /\ running /\ CanChange
    /\ Becomes(paste(S), "paste")

DeleteSelected ==
    /\ running
    /\ Becomes(delete_selected(S), "delete_selected")

NewFile ==
    /\ running /\ CanChange
    /\ \E name \in InputNames, is_dir \in BOOLEAN :
           Becomes(new_file(S, name, is_dir), "new_file")

RenameSelected ==
    /\ running /\ CanChange
    /\ \E name \in InputNames : Becomes(rename_selected(S, name), "rename_selected")

ParentDir ==
    /\ running /\ CanChange
    /\ Becomes(parent_dir(S), "parent_dir")

SubDir ==
    /\ running /\ CanChange
    /\ \E i \in 0..Len(files) : Becomes(sub_dir(S, i), "sub_dir")

Undo ==
    /\ running /\ CanChange
    /\ Becomes(undo(S), "undo")

Next ==
    \/ SelectCurrent
    \/ ClearSelection
    \/ CopySelected
    \/ Paste
    \/ DeleteSelected
    \/ NewFile
    \/ RenameSelected
    \/ ParentDir
    \/ SubDir
    \/ Undo

Spec == Init /\ [][Next]_vars

\* The same machine, started fresh or after the navigations that fill the history.
SpecFull == (Init \/ InitFull) /\ [][Next]_vars

\* The FileSys API again, started where these calls leave the program: with s
\* selected new_file("b") (creates s/b), select s and sub_dir, select b and
\* copy_selected(false), parent_dir, select b and rename_selected("B"), paste()
\* (moves s/b into the start directory). The history holds the five records.
MovedOutState ==
    LET s1 == new_file(select_current(InitState, 0).s, name_b, FALSE).s
        s2 == sub_dir(select_current(s1, 0).s, 0).s
        s3 == copy_selected(select_current(s2, 0).s, FALSE).s
        s4 == parent_dir(s3).s
        s5 == rename_selected(select_current(s4, 1).s, name_B).s
    IN  paste(s5).s
InitMoved == StartIn(MovedOutState, MaxPushes)
SpecMoved == InitMoved /\ [][Next]_vars

\* ---- the key events of App::run ----
\* One turn of the loop: the frame is drawn, the loop ends when should_quit is
\* set, a key press goes to handle_key and what handle_key returns is dropped.

Keyed(key) ==
    LET res == handle_key(S, key)
    IN  Becomes(IF IsErr(res.r) THEN Ret(res.s, "Ok") ELSE res, key.code)

Listening == running /\ ~should_quit

PressChar ==
    /\ Listening
    /\ \E c \in (IF input_context = "None" THEN CommandChars ELSE InputChars) :
          /\ input_context # "None" => Append(input_buffer, c) \in TypedPrefixes
          /\ (input_context = "None" /\ c \in {key_h, key_l, key_v, key_u}) => CanChange
          /\ Keyed([code |-> "Char", c |-> c])

PressBackspace ==
    /\ Listening
    /\ Keyed([code |-> "Backspace", c |-> 0])

PressEnter ==
    /\ Listening
    /\ input_context \in {"NewFile", "NewDir", "Rename"} => CanChange
    /\ Keyed([code |-> "Enter", c |-> 0])

PressEsc ==
    /\ Listening
    /\ Keyed([code |-> "Esc", c |-> 0])

PressOther ==
    /\ Listening
    /\ Keyed([code |-> "Tab", c |-> 0])

NextApp ==
    \/ PressChar
    \/ PressBackspace
    \/ PressEnter
    \/ PressEsc
    \/ PressOther

SpecApp == InitApp /\ [][NextApp]_vars

\* The same loop under the bound KeyPushes.
InitKeys == StartIn(InitState, KeyPushes)
SpecKeys == InitKeys /\ [][NextApp]_vars

\* The same loop, started where the keys j (cursor on s), l (enter s) and h (back
\* to the start directory) leave the program: the history holds the two CD
\* records of that round trip.
KeyChar(c) == [code |-> "Char", c |-> c]
NavKeysState ==
    handle_key(handle_key(handle_key(InitState, KeyChar(key_j)).s,
                          KeyChar(key_l)).s,
               KeyChar(key_h)).s
InitAppNav == StartIn(NavKeysState, AppPushes)
SpecAppNav == InitAppNav /\ [][NextApp]_vars

\* --------------------------------------------------------------------------
\* The claims
\* --------------------------------------------------------------------------

PushingCalls == {"paste", "new_file", "rename_selected", "parent_dir", "sub_dir"}

\* C1: the history never holds more than 64 records, and a push onto a history
\* of 64 removes exactly the oldest record: the 63 others follow the new record
\* in their previous order.
C1_HistoryBounded ==
    /\ [](Len(ops_history) <= MAX_HISTORY_SIZE)
    /\ [][(/\ Len(ops_history) = MAX_HISTORY_SIZE
           /\ last'.op \in PushingCalls
           /\ ops_history' # ops_history)
          => /\ Len(ops_history') = MAX_HISTORY_SIZE
             /\ \A i \in 1..(MAX_HISTORY_SIZE - 1) : ops_history'[i + 1] = ops_history[i]]_vars

\* A history that held 64 navigation records, onto which new_file has pushed:
\* the oldest navigation record is gone, the second oldest is now the last.
C1_Witness ==
    /\ Len(ops_history) = MAX_HISTORY_SIZE
    /\ last.op = "new_file"
    /\ ops_history[1].operation = "New"
    /\ ops_history[MAX_HISTORY_SIZE] = NavRecord(2)
    /\ ops_history[2] = NavRecord(MAX_HISTORY_SIZE)

\* C2: the entry list is sorted in every reachable state: every directory
\* before every file, and ascending byte order of the names within each group.
C2_EntriesSorted ==
    \A i, j \in 1..Len(files) :
        i < j => /\ files[i].is_dir \/ ~files[j].is_dir
                 /\ files[i].is_dir = files[j].is_dir => StrLess(files[i].name, files[j].name)

\* The listing s, B, b of a directory holding b, B and s.
C2_Witness ==
    /\ Len(files) = 3
    /\ files[1].name = name_s /\ files[1].is_dir
    /\ files[2].name = name_B /\ ~files[2].is_dir
    /\ files[3].name = name_b /\ ~files[3].is_dir

\* C3 (as amended): a successful new_file(x, false) followed at once by undo()
\* leaves the filesystem and the entry list as they were before the create; the
\* history is as before when it held fewer than 64 records, and is its 63 most
\* recent records when it held 64.
C3_CreateThenUndo ==
    running =>
        \A x \in ValidNames :
            LET c == new_file(S, x, FALSE)
            IN  (c.r = "Ok" /\ c.s.disk # disk) =>
                    LET u == undo(c.s)
                    IN  /\ u.r = "Ok"
                        /\ u.s.disk = disk
                        /\ u.s.files = files
                        /\ u.s.ops_history =
                              IF Len(ops_history) < MAX_HISTORY_SIZE THEN ops_history
                              ELSE SubSeq(ops_history, 1, MAX_HISTORY_SIZE - 1)

\* C3 as stated: the history after the undo equals the history before the create.
C3_Original ==
    running =>
        \A x \in ValidNames :
            LET c == new_file(S, x, FALSE)
            IN  (c.r = "Ok" /\ c.s.disk # disk) =>
                    LET u == undo(c.s)
                    IN  /\ u.r = "Ok"
                        /\ ~fs_exists(u.s.disk, Head(c.s.ops_history).file_target)
                        /\ u.s.files = files
                        /\ u.s.ops_history = ops_history

\* new_file has created a file on a full history, and the undo that follows
\* removes the file and leaves 63 records.
C3_Witness ==
    /\ last = Call("new_file", "Ok")
    /\ Len(ops_history) = MAX_HISTORY_SIZE
    /\ ops_history[1].operation = "New"
    /\ fs_is_file(disk, ops_history[1].file_target)
    /\ ops_history[MAX_HISTORY_SIZE] = NavRecord(2)
    /\ LET u == undo(S)
       IN  /\ u.r = "Ok"
           /\ ~fs_exists(u.s.disk, ops_history[1].file_target)
           /\ Len(u.s.ops_history) = MAX_HISTORY_SIZE - 1

\* The selection is absent or a position of the entry list.
SelectionValid == IsSome(selected_index) => Unwrap(selected_index) < Len(files)

\* The path paste pastes to: the selected entry's path when that entry is a
\* directory, else the current directory, joined with the source's base name.
PasteTarget ==
    LET src == Unwrap(clipboard).path
        dir == IF IsSome(selected_index) /\ files[Unwrap(selected_index) + 1].is_dir
               THEN files[Unwrap(selected_index) + 1].path
               ELSE current_dir
    IN  Append(dir, src[Len(src)])

\* C4: paste() with a clipboard whose source exists and whose target path exists
\* changes neither the filesystem, the history nor the clipboard and reports
\* "File already exists" as an error.
C4_PasteOntoExisting ==
    (/\ running
     /\ IsSome(clipboard)
     /\ Unwrap(clipboard).path \in DOMAIN disk
     /\ SelectionValid
     /\ PasteTarget \in DOMAIN disk)
    => LET p == paste(S)
       IN  /\ p.r = "Ok"
           /\ p.s.disk = disk
           /\ p.s.ops_history = ops_history
           /\ p.s.clipboard = clipboard
           /\ p.s.status_info.fmt = "File already exists"
           /\ p.s.status_flag = "Error"

\* paste has refused a target that exists.
C4_Witness ==
    /\ last = Call("paste", "Ok")
    /\ status_info.fmt = "File already exists"
    /\ IsSome(clipboard)
    /\ PasteTarget \in DOMAIN disk

\* The names C5 is about.
ClaimedInvalid(name) ==
    \/ name = <<>>
    \/ \E i \in 1..Len(name) : name[i] = ch_slash \/ name[i] = ch_nul
    \/ \E i \in 1..(Len(name) - 1) : name[i] = ch_dot /\ name[i + 1] = ch_dot

\* The state s with the status set aside.
Untouched(s) ==
    /\ s.disk = disk
    /\ s.ops_history = ops_history
    /\ s.current_dir = current_dir
    /\ s.files = files
    /\ s.selected_index = selected_index
    /\ s.clipboard = clipboard

\* C5: new_file and rename_selected with an empty name or a name containing
\* '/', ".." or a null byte report "Invalid Name" and change nothing else,
\* whatever the selection is.
C5_InvalidNameRejected ==
    running =>
        \A name \in {n \in InputNames : ClaimedInvalid(n)} :
            /\ \A is_dir \in BOOLEAN :
                   LET c == new_file(S, name, is_dir)
                   IN  c.r = "Ok" /\ c.s.status_info.fmt = "Invalid Name" /\ Untouched(c.s)
            /\ LET c == rename_selected(S, name)
               IN  c.r = "Ok" /\ c.s.status_info.fmt = "Invalid Name" /\ Untouched(c.s)

\* rename_selected has refused a name while an entry was selected.
C5_Witness ==
    /\ last = Call("rename_selected", "Ok")
    /\ status_info.fmt = "Invalid Name"
    /\ IsSome(selected_index)
    /\ C5_InvalidNameRejected

\* C6: with a file f cut to the clipboard, a successful paste() leaves f absent
\* and the target present, and the undo() that follows at once moves it back.
C6_CutPasteUndo ==
    (/\ running
     /\ IsSome(clipboard)
     /\ ~Unwrap(clipboard).is_copy
     /\ fs_is_file(disk, Unwrap(clipboard).path))
    => LET f == Unwrap(clipboard).path
           p == paste(S)
       IN  (p.r = "Ok" /\ p.s.status_info.fmt = "Pasted: {}") =>
               LET rec == Head(p.s.ops_history)
                   u == undo(p.s)
               IN  /\ rec.operation = "Cut" /\ rec.file_source = f
                   /\ rec.file_target[Len(rec.file_target)] = f[Len(f)]
                   /\ ~fs_exists(p.s.disk, f)
                   /\ fs_is_file(p.s.disk, rec.file_target)
                   /\ u.r = "Ok"
                   /\ fs_is_file(u.s.disk, f)
                   /\ ~fs_exists(u.s.disk, rec.file_target)
                   /\ u.s.disk = disk

\* A cut file has been pasted into a selected directory, and the undo moves it back.
C6_Witness ==
    /\ last = Call("paste", "Ok")
    /\ status_info.fmt = "Pasted: {}"
    /\ Head(ops_history).operation = "Cut"
    /\ ~fs_exists(disk, Head(ops_history).file_source)
    /\ fs_is_file(disk, Head(ops_history).file_target)
    /\ fs_is_file(undo(S).s.disk, Head(ops_history).file_source)
    /\ ~fs_exists(undo(S).s.disk, Head(ops_history).file_target)

\* C7: for every file f and directory d of the entry list with d/f absent:
\* select f, copy_selected(true), select d, sub_dir, paste() creates d/f with
\* the size of f, f still exists, the clipboard is the one set before the
\* navigation, and the Copy record (f, d/f) is the most recent record.
C7_CopyNavigatePaste ==
    running =>
        \A k, i \in 0..(Len(files) - 1) :
            LET f == files[k + 1]
                d == files[i + 1]
                target == Append(d.path, f.name)
                s1 == copy_selected(select_current(S, k).s, TRUE)
                s2 == sub_dir(select_current(s1.s, i).s, i)
                s3 == paste(s2.s)
            IN  (~f.is_dir /\ d.is_dir /\ target \notin DOMAIN disk) =>
                    /\ s1.r = "Ok" /\ s2.r = "Ok" /\ s3.r = "Ok"
                    /\ s1.s.clipboard = Some([path |-> f.path, is_copy |-> TRUE])
                    /\ s2.s.current_dir = d.path
                    /\ s2.s.clipboard = s1.s.clipboard
                    /\ s3.s.clipboard = s1.s.clipboard
                    /\ fs_is_file(s3.s.disk, target)
                    /\ s3.s.disk[target].size = disk[f.path].size
                    /\ fs_is_file(s3.s.disk, f.path)
                    /\ Head(s3.s.ops_history) = OpsUnit("Copy", f.path, target)

\* A copy pasted after a navigation: the copy lies in the current directory,
\* its source in another one, both exist with the same, non-zero size.
C7_Witness ==
    /\ last = Call("paste", "Ok")
    /\ status_info.fmt = "Pasted: {}"
    /\ Len(ops_history) >= 2
    /\ ops_history[1].operation = "Copy"
    /\ ops_history[2] = OpsUnit("CD", StartDir, current_dir)
    /\ ops_history[1].file_target = Append(current_dir, name_b)
    /\ ops_history[1].file_source = Append(StartDir, name_b)
    /\ fs_is_file(disk, ops_history[1].file_source)
    /\ fs_is_file(disk, ops_history[1].file_target)
    /\ disk[ops_history[1].file_target].size = 3
    /\ clipboard = Some([path |-> ops_history[1].file_source, is_copy |-> TRUE])

PasteSucceeded == last'.op = "paste" /\ last'.r = "Ok" /\ status_info'.fmt = "Pasted: {}"

\* C8 (as amended): a successful paste() leaves the clipboard as it was, and the
\* clipboard changes only by copy_selected or by a paste() that finds its
\* source missing, which empties it.
C8_ClipboardPersists ==
    [][/\ PasteSucceeded => (clipboard' = clipboard /\ IsSome(clipboard))
       /\ clipboard' # clipboard =>
              \/ last'.op = "copy_selected"
              \/ /\ last'.op = "paste"
                 /\ IsSome(clipboard)
                 /\ ~fs_exists(disk, Unwrap(clipboard).path)
                 /\ clipboard' = None]_vars

\* C8 as stated: after a successful paste the clipboard persists until a later
\* copy_selected overwrites it.
C8_Original ==
    [][/\ PasteSucceeded => (clipboard' = clipboard /\ IsSome(clipboard))
       /\ clipboard' # clipboard => last'.op = "copy_selected"]_vars

\* paste has succeeded and the clipboard still holds the source it pasted.
C8_Witness ==
    /\ last = Call("paste", "Ok")
    /\ status_info.fmt = "Pasted: {}"
    /\ IsSome(clipboard)
    /\ Unwrap(clipboard).path = Head(ops_history).file_source

EnterKey == [code |-> "Enter", c |-> 0]

\* C9 as stated: Enter in ConfirmDelete deletes only when the trimmed buffer is
\* "y" or "Y"; with any other buffer the filesystem is as before and the
\* confirmation is cancelled (the machine is back in Normal).
C9_Original ==
    (Listening /\ input_context = "ConfirmDelete" /\ trim(input_buffer) \notin {<<ch_y>>, <<ch_Y>>})
    => LET e == handle_key(S, EnterKey)
       IN  e.s.disk = disk /\ e.s.input_context = "None"

\* C10 as stated: Enter pressed in any input state, with any buffer, leaves the
\* machine in Normal.
C10_Original ==
    (Listening /\ input_context # "None")
    => handle_key(S, EnterKey).s.input_context = "None"

\* C11: undo() never adds a record. On a non-empty history it removes exactly
\* the most recent record, whatever it returns, so that a second undo() acts on
\* the next older record; on an empty history it reports "Nothing to undo" with
\* a severity other than Error and changes nothing else.
C11_UndoPopsOnly ==
    LET u == undo(S)
    IN  /\ ops_history # <<>> => u.s.ops_history = Tail(ops_history)
        /\ Len(ops_history) >= 2 =>
               LET rec == ops_history[2]
                   v == undo(u.s)
               IN  /\ v.s.ops_history = Tail(Tail(ops_history))
                   /\ rec.operation = "CD" => v.s.current_dir = rec.file_source
                   /\ (rec.operation # "CD" /\ v.r = "Ok") => ~fs_exists(v.s.disk, rec.file_target)
        /\ ops_history = <<>> =>
               /\ u.r = "Ok"
               /\ u.s.status_info = Status("Nothing to undo", <<>>)
               /\ u.s.status_flag = "Others"
               /\ Untouched(u.s)

\* undo has popped the most recent of 64 records; the next undo pops the next one.
C11_Witness ==
    /\ last = Call("undo", "Ok")
    /\ status_info.fmt = "Undone"
    /\ Len(ops_history) = MAX_HISTORY_SIZE - 1
    /\ ops_history[1] = NavRecord(MAX_HISTORY_SIZE - 1)
    /\ undo(S).s.ops_history = Tail(ops_history)

\* C12: a parent_dir or sub_dir that returns Ok and changes the current path
\* has pushed the record (CD, previous path, new path); and an undo() whose most
\* recent record is a CD record leaves the current path equal to the record's
\* source and the entry list equal to the sorted content of that directory
\* (which is empty when the directory is gone).
C12_NavigationLogged ==
    /\ LET p == parent_dir(S)
       IN  (p.r = "Ok" /\ p.s.current_dir # current_dir) =>
               /\ p.s.current_dir = Unwrap(parent(current_dir))
               /\ Head(p.s.ops_history) = [operation |-> "CD", file_source |-> current_dir,
                                           file_target |-> p.s.current_dir]
    /\ \A i \in 0..Len(files) :
           LET d == sub_dir(S, i)
           IN  (d.r = "Ok" /\ d.s.current_dir # current_dir) =>
                   /\ d.s.current_dir = files[i + 1].path
                   /\ Head(d.s.ops_history) = [operation |-> "CD", file_source |-> current_dir,
                                               file_target |-> d.s.current_dir]
    /\ (ops_history # <<>> /\ Head(ops_history).operation = "CD") =>
           LET u == undo(S)
           IN  /\ u.s.current_dir = Head(ops_history).file_source
               /\ u.s.files = SortBy({FileInfoOf(u.s.disk, q) :
                                         q \in Children(u.s.disk, u.s.current_dir)})

\* After 64 navigations and a copy_selected, undo has popped the record of the
\* last parent_dir: the program is back in the subdirectory it had left.
C12_Witness ==
    /\ last = Call("undo", "Ok")
    /\ status_info.fmt = "Undone"
    /\ Len(ops_history) = MAX_HISTORY_SIZE - 1
    /\ current_dir = join(StartDir, name_s)
    /\ files = <<>>
    /\ IsSome(clipboard)

\* The outcome of parent_dir() at the root apart from the selection: "Root Dir"
\* with severity Error, and filesystem, current path, entry list, clipboard and
\* history as before.
RootDirRefused(p) ==
    /\ p.r = "Ok"
    /\ p.s.status_info = Status("Root Dir", <<>>)
    /\ p.s.status_flag = "Error"
    /\ p.s.disk = disk
    /\ p.s.current_dir = current_dir
    /\ p.s.files = files
    /\ p.s.clipboard = clipboard
    /\ p.s.ops_history = ops_history

Refused(d, fmt) ==
    /\ d.r = "Ok"
    /\ d.s.status_info = Status(fmt, <<>>)
    /\ d.s.status_flag = "Error"
    /\ Untouched(d.s)

\* C14 (as amended): sub_dir(index) changes the current path only when index is
\* the selected index and the entry there is a directory. With no selection or
\* another selected index it reports "No Selection", with a selected file it
\* reports "Not Dir", and in both cases it changes nothing else; with index the
\* selected index and no entry at that index it panics.
C14_SubDirGuards ==
    \A i \in 0..Len(files) :
        LET d == sub_dir(S, i)
        IN  /\ d.s.current_dir # current_dir =>
                   selected_index = Some(i) /\ i < Len(files) /\ files[i + 1].is_dir
            /\ selected_index # Some(i) => Refused(d, "No Selection")
            /\ (selected_index = Some(i) /\ i < Len(files) /\ ~files[i + 1].is_dir)
                   => Refused(d, "Not Dir")
            /\ (selected_index = Some(i) /\ i >= Len(files))
                   => (d.r = "Panic" /\ Untouched(d.s))

\* C14 as stated: in every case but that of a selected directory at index the
\* call reports "No Selection" and changes nothing else.
C14_Original ==
    \A i \in 0..Len(files) :
        LET d == sub_dir(S, i)
        IN  ~(selected_index = Some(i) /\ i < Len(files) /\ files[i + 1].is_dir)
                => Refused(d, "No Selection")

\* sub_dir has been called on the selected entry, a file, and has refused it.
C14_Witness ==
    /\ last = Call("sub_dir", "Ok")
    /\ status_info.fmt = "Not Dir"
    /\ IsSome(selected_index)
    /\ Unwrap(selected_index) < Len(files)
    /\ ~files[Unwrap(selected_index) + 1].is_dir
    /\ ops_history = <<>>

\* C15: delete_selected() leaves the history as it was, whatever it returns;
\* after a delete that removed the selected entry, undo() pops the record that
\* was the most recent before the delete and the deleted path is still absent.
C15_DeleteNotRecorded ==
    LET d == delete_selected(S)
    IN  /\ d.s.ops_history = ops_history
        /\ (d.r = "Ok" /\ d.s.disk # disk) =>
               LET gone == files[Unwrap(selected_index) + 1].path
                   u == undo(d.s)
               IN  /\ ~fs_exists(d.s.disk, gone)
                   /\ ops_history # <<>> => u.s.ops_history = Tail(ops_history)
                   /\ ops_history = <<>> => u.s.ops_history = <<>>
                   /\ ~fs_exists(u.s.disk, gone)

\* delete_selected has removed an entry while the history held a record, and
\* the undo that follows does not bring the entry back.
C15_Witness ==
    /\ last = Call("delete_selected", "Ok")
    /\ status_info.fmt = "Deleted: {}"
    /\ ops_history # <<>>
    /\ ~fs_exists(disk, join(current_dir, status_info.arg))
    /\ ~fs_exists(undo(S).s.disk, join(current_dir, status_info.arg))
    /\ undo(S).s.ops_history = Tail(ops_history)

\* C16: copy_selected(mode), in either mode, with a directory selected reports
\* "Operation Not Supported" as an error and leaves the clipboard (and all but
\* the status) as it was; with no selection it leaves the clipboard as it was.
C16_CopyDirectoryRefused ==
    \A is_copy \in BOOLEAN :
        LET c == copy_selected(S, is_copy)
        IN  /\ (/\ IsSome(selected_index)
                /\ Unwrap(selected_index) < Len(files)
                /\ files[Unwrap(selected_index) + 1].is_dir)
               => Refused(c, "Operation Not Supported")
            /\ selected_index = None =>
                   (c.r = "Ok" /\ c.s.clipboard = clipboard /\ Untouched(c.s))

\* copy_selected has refused a selected directory while the clipboard held a file.
C16_Witness ==
    /\ last = Call("copy_selected", "Ok")
    /\ status_info.fmt = "Operation Not Supported"
    /\ status_flag = "Error"
    /\ IsSome(selected_index)
    /\ files[Unwrap(selected_index) + 1].is_dir
    /\ IsSome(clipboard)

\* C17 as stated: in every state reached by key events the selected index, when
\* present, is a position of the entry list.
C17_Original ==
    IsSome(selected_index) => Unwrap(selected_index) < Len(files)

\* The engine call submit_input makes in NewFile, NewDir and Rename.
EngineCall ==
    LET input == trim(input_buffer)
    IN  IF input_context = "NewFile" THEN new_file(S, input, FALSE)
        ELSE IF input_context = "NewDir" THEN new_file(S, input, TRUE)
        ELSE rename_selected(S, input)

\* C18 as stated: when Enter is pressed in NewFile, NewDir or Rename with a
\* non-empty trimmed buffer and the engine call fails (it returns Err) or refuses
\* (it sets an Error status), handle_key returns Ok, the machine is in Normal,
\* and the status is that failure's message with severity Error.
C18_Original ==
    (/\ Listening
     /\ input_context \in {"NewFile", "NewDir", "Rename"}
     /\ trim(input_buffer) # <<>>
     /\ EngineCall.r # "Panic"
     /\ IsErr(EngineCall.r) \/ EngineCall.s.status_flag = "Error")
    => LET e == handle_key(S, EnterKey)
       IN  /\ e.r = "Ok"
           /\ e.s.input_context = "None"
           /\ e.s.status_flag = "Error"
           /\ e.s.status_info =
                  IF IsErr(EngineCall.r)
                  THEN [fmt |-> "Error: {}", arg |-> <<>>, err |-> EngineCall.r]
                  ELSE EngineCall.s.status_info

InputStates == {"NewFile", "NewDir", "Rename", "ConfirmDelete", "Search"}

\* A step from Normal into an input state.
EntersInput == input_context = "None" /\ input_context' \in InputStates

\* C19 (as amended): a step from Normal into NewFile, NewDir, ConfirmDelete or
\* Search leaves the buffer empty, a step into Rename leaves it holding the name
\* of the entry under the cursor, which it selects; no such step writes the
\* status; the status bar shows its prompt in ConfirmDelete, the title "Search"
\* in Search, and the same box "Input" in NewFile, NewDir and Rename.
C19_EnteringInput ==
    [][EntersInput =>
          /\ input_context' # "Rename" => input_buffer' = <<>>
          /\ input_context' = "Rename" =>
                 /\ IsSome(get_cursor_file_info(S))
                 /\ selected_index' = Some(Unwrap(get_cursor_file_info(S)).index)
                 /\ input_buffer' = FileAt(S, Unwrap(get_cursor_file_info(S)).index).name
                 /\ input_buffer' # <<>>
          /\ status_info' = status_info
          /\ status_flag' = status_flag
          /\ render_status_bar(S)'.input = input_buffer'
          /\ input_context' = "ConfirmDelete" =>
                 /\ render_status_bar(S)'.title = "Confirm"
                 /\ render_status_bar(S)'.prompt = "Removed files cannot recover (y/N): "
          /\ input_context' = "Search" =>
                 (render_status_bar(S)'.title = "Search" /\ render_status_bar(S)'.prompt = "")
          /\ input_context' \in {"NewFile", "NewDir", "Rename"} =>
                 (render_status_bar(S)'.title = "Input" /\ render_status_bar(S)'.prompt = "")
      ]_vars

\* C19 as stated: every step from Normal into an input state leaves the buffer
\* empty and what the status bar shows tells the state entered from every other
\* input state.
C19_Original ==
    [][EntersInput =>
          /\ input_buffer' = <<>>
          /\ \A c \in InputStates \ {input_context'} :
                 render_status_bar([S EXCEPT !.input_context = c])' # render_status_bar(S)'
      ]_vars

\* The key r has opened Rename on the file b: the buffer holds "b".
C19_Witness ==
    /\ last = Call("Char", "Ok")
    /\ input_context = "Rename"
    /\ input_buffer = name_b
    /\ IsSome(selected_index)
    /\ files[Unwrap(selected_index) + 1].name = name_b
    /\ render_status_bar(S).title = "Input"

\* C20 as stated: when a navigation key (h, l, or u on a CD record) changes the
\* current path and the refresh of the new path fails, the status becomes an
\* error, the loop keeps running and the entry list is the content of the
\* current path.
C20_Original ==
    (Listening /\ input_context = "None") =>
        \A c \in {key_h, key_l, key_u} :
            LET e == handle_key(S, KeyChar(c))
            IN  (IsErr(e.r) /\ e.s.current_dir # current_dir) =>
                    /\ e.s.status_flag = "Error"
                    /\ e.s.status_info # status_info
                    /\ ~e.s.should_quit
                    /\ e.s.files = SortBy({FileInfoOf(e.s.disk, q) :
                                              q \in Children(e.s.disk, e.s.current_dir)})

\* C21 as stated: select_current(index) records index as the selection when it
\* is a position of the entry list, and for an index at or beyond the length of
\* the list it changes neither the selection nor the status.
C21_Original ==
    \A i \in 0..Len(files) :
        LET r == select_current(S, i)
        IN  /\ i < Len(files) => r.s.selected_index = Some(i)
            /\ i >= Len(files) =>
                   /\ r.s.selected_index = selected_index
                   /\ r.s.status_info = status_info
                   /\ r.s.status_flag = status_flag

\* The call c has refused the name x because its target exists.
ExistsRefused(c, x) ==
    /\ c.r = "Ok"
    /\ c.s.status_info = Status("{} Exists", x)
    /\ c.s.status_flag = "Error"
    /\ Untouched(c.s)

\* C22: with the selection absent or a position of the entry list, new_file(x, _)
\* resolves its target inside the selected entry when that is a directory and
\* inside the current directory otherwise, rename_selected(x) always inside the
\* current directory; a target that exists is refused with "x Exists" and
\* nothing but the status changes; otherwise a call that returns Ok has created
\* (moved the selected entry to) exactly that target and recorded it.
C22_TargetResolution ==
    (running /\ SelectionValid) =>
        \A x \in ValidNames :
            LET sel == IF IsSome(selected_index) THEN <<files[Unwrap(selected_index) + 1]>> ELSE <<>>
                inside == IF sel # <<>> /\ sel[1].is_dir THEN sel[1].path ELSE current_dir
            IN  /\ \A is_dir \in BOOLEAN :
                       LET c == new_file(S, x, is_dir)
                           target == Append(inside, x)
                       IN  IF target \in DOMAIN disk THEN ExistsRefused(c, x)
                           ELSE /\ c.r # "Ok" => c.s.disk = disk
                                /\ c.r = "Ok" =>
                                       /\ DOMAIN c.s.disk = DOMAIN disk \cup {target}
                                       /\ c.s.disk[target].is_dir = is_dir
                                       /\ \A q \in DOMAIN disk : c.s.disk[q] = disk[q]
                                       /\ Head(c.s.ops_history) =
                                              [operation |-> "New", file_source |-> <<>>,
                                               file_target |-> target]
                /\ sel # <<>> =>
                       LET c == rename_selected(S, x)
                           target == Append(current_dir, x)
                       IN  IF target \in DOMAIN disk THEN ExistsRefused(c, x)
                           ELSE /\ c.r # "Ok" => c.s.disk = disk
                                /\ c.r = "Ok" =>
                                       /\ target \in DOMAIN c.s.disk
                                       /\ sel[1].path \notin DOMAIN c.s.disk
                                       /\ c.s.disk[target] = disk[sel[1].path]
                                       /\ Head(c.s.ops_history) =
                                              [operation |-> "Rename", file_source |-> sel[1].path,
                                               file_target |-> target]

\* new_file has created B inside the selected directory s, not in the current
\* directory; a rename of s to B then lands in the current directory.
C22_Witness ==
    /\ last = Call("new_file", "Ok")
    /\ current_dir = StartDir
    /\ ops_history # <<>>
    /\ Head(ops_history).operation = "New"
    /\ Head(ops_history).file_target = join(join(StartDir, name_s), name_B)
    /\ fs_exists(disk, join(join(StartDir, name_s), name_B))
    /\ ~fs_exists(disk, join(StartDir, name_B))
    /\ LET c == rename_selected(select_current(S, 0).s, name_B)
       IN  /\ c.r = "Ok"
           /\ fs_is_dir(c.s.disk, join(StartDir, name_B))
           /\ ~fs_exists(c.s.disk, join(StartDir, name_s))

\* The characters and the other keys the claims press.
AnyChars == CommandChars \cup InputChars \cup {ch_Y, ch_N}
OtherKeys == {[code |-> k, c |-> 0] : k \in {"Backspace", "Enter", "Esc", "Tab"}}

\* C23: in an input state a character key (the command keys included) only
\* appends to the buffer, Backspace only removes the buffer's last character,
\* Esc only returns to Normal with an empty buffer and the status Ready, and any
\* other key but Enter changes nothing: filesystem, current path, entry list,
\* selection, clipboard, history and quit flag are as before. In every state
\* the only key that changes the quit flag is q pressed in Normal.
C23_InputKeysFrame ==
    Listening =>
        /\ input_context # "None" =>
               /\ \A c \in AnyChars :
                      handle_key(S, KeyChar(c)) =
                          Ret([S EXCEPT !.input_buffer = Append(input_buffer, c)], "Ok")
               /\ handle_key(S, [code |-> "Backspace", c |-> 0]) =
                      Ret([S EXCEPT !.input_buffer =
                              IF input_buffer = <<>> THEN <<>>
                              ELSE SubSeq(input_buffer, 1, Len(input_buffer) - 1)], "Ok")
               /\ handle_key(S, [code |-> "Esc", c |-> 0]) =
                      Ret([S EXCEPT !.input_context = "None", !.input_buffer = <<>>,
                                    !.status_info = Status("Ready", <<>>),
                                    !.status_flag = "Ready"], "Ok")
               /\ handle_key(S, [code |-> "Tab", c |-> 0]) = Ret(S, "Ok")
        /\ \A key \in {KeyChar(c) : c \in AnyChars} \cup OtherKeys :
               handle_key(S, key).s.should_quit # should_quit
                   => (input_context = "None" /\ key = KeyChar(key_q))

\* The key n, which opens NewFile in Normal, has been typed into the buffer of
\* NewFile while an entry is selected; q pressed now would be typed as well.
C23_Witness ==
    /\ last = Call("Char", "Ok")
    /\ input_context = "NewFile"
    /\ input_buffer = <<key_n>>
    /\ IsSome(selected_index)
    /\ ~should_quit
    /\ handle_key(S, KeyChar(key_q)).s.input_buffer = <<key_n, key_q>>
    /\ ~handle_key(S, KeyChar(key_q)).s.should_quit

\* C24 as stated: when undo() on a Cut or Rename record changes the filesystem
\* (it moves the target back), the record's source path did not exist, and when
\* undo() on a Copy record changes the filesystem (it removes the target), the
\* target was a file.
C24_Original ==
    (running /\ ops_history # <<>>) =>
        LET rec == Head(ops_history)
            u == undo(S)
        IN  /\ (rec.operation \in {"Cut", "Rename"} /\ u.s.disk # disk)
                   => ~fs_exists(disk, rec.file_source)
            /\ (rec.operation = "Copy" /\ u.s.disk # disk)
                   => fs_is_file(disk, rec.file_target)

\* The calls of C25, and the statuses a successful call leaves when it has
\* rebuilt the list: refresh writes "Ready", and paste, delete_selected,
\* rename_selected and undo write theirs after their refresh has returned.
ViewCalls ==
    {"init", "paste", "new_file", "rename_selected", "delete_selected",
     "parent_dir", "sub_dir", "undo"}
RefreshedStatus == {"Ready", "Pasted: {}", "Deleted: {}", "Renamed to: {}", "Undone"}

\* C25: right after init and after each of paste, new_file, rename_selected,
\* delete_selected, parent_dir, sub_dir and undo has returned Ok, the cached
\* list has one entry for each entry the filesystem holds in current_dir, with
\* that entry's name, kind and size, and nothing else; and when the call has
\* rebuilt the list there is no selection.
C25_ViewMatchesDisk ==
    (last.r = "Ok" /\ last.op \in ViewCalls) =>
        /\ Len(files) = Cardinality(Children(disk, current_dir))
        /\ {files[i] : i \in 1..Len(files)}
               = {FileInfoOf(disk, q) : q \in Children(disk, current_dir)}
        /\ status_info.fmt \in RefreshedStatus => selected_index = None

\* undo has just taken a navigation record off a long history and gone back to
\* the directory the record left: its two entries are listed, none is selected.
C25_Witness ==
    /\ last = Call("undo", "Ok")
    /\ status_info.fmt = "Undone"
    /\ Len(ops_history) = MAX_HISTORY_SIZE - 2
    /\ Len(files) = 2
    /\ Cardinality(Children(disk, current_dir)) = 2
    /\ selected_index = None

====
